---- MODULE Spec2Model ----
(***************************************************************************)
(* Model of statistics_and_trends.py: the pipeline main() runs twice       *)
(* (lines 321-323): load data.csv, preprocessing, numeric-column check,    *)
(* three overview plots, scatter_plot, heatmap, bar_plot,                  *)
(* statistical_analysis and writing.  The definitions in force are the     *)
(* second (logging) ones, lines 157-319, which rebind the first ones.      *)
(*                                                                         *)
(* A DataFrame is a sequence of columns; a column is a dtype and a         *)
(* sequence of cells.  A cell is NA or a small natural number.  Column     *)
(* names are the positions in the loaded file.  Floating point results are *)
(* exact: a float is NaN or sgn * num/den (or sgn * sqrt(num/den) when     *)
(* root is TRUE).                                                          *)
(***************************************************************************)
EXTENDS Integers, Sequences, FiniteSets, TLC

MaxCols == 3
MaxRows == 3
MaxVal == 1
MaxCells == 6
MaxFaults == 1

NA == -1

VARIABLES file, scipyNaN, run, pc, df, num_cols, selected_col, moments,
          labels, chosen, calls, log, disk, faults

vars == <<file, scipyNaN, run, pc, df, num_cols, selected_col, moments,
          labels, chosen, calls, log, disk, faults>>

----------------------------------------------------------------------------
(* Helpers *)

Range(s) == {s[i] : i \in 1..Len(s)}

Indices(n) == [i \in 1..n |-> i]

RECURSIVE Sum(_)
Sum(s) == IF s = <<>> THEN 0 ELSE Head(s) + Sum(Tail(s))

Sign(x) == IF x > 0 THEN 1 ELSE IF x < 0 THEN -1 ELSE 0

Abs(x) == IF x < 0 THEN -x ELSE x

----------------------------------------------------------------------------
(* What pd.read_csv can infer: a numeric column may hold NA in any cell;   *)
(* an object column holds at least one string unless the file has no data  *)
(* rows; a bool column holds no NA; a file without data rows yields object *)
(* columns only.                                                           *)

CellsOf(t) == IF t = "num" THEN {NA} \cup (0..MaxVal)
              ELSE IF t = "cat" THEN {NA, 0}
              ELSE {0}

ColumnsOf(r) ==
  { [dtype |-> "num", cells |-> c] : c \in [1..r -> CellsOf("num")] } \cup
  { [dtype |-> "cat", cells |-> c] :
       c \in {x \in [1..r -> CellsOf("cat")] : r = 0 \/ \E i \in 1..r : x[i] # NA} } \cup
  { [dtype |-> "bool", cells |-> c] :
       c \in {x \in [1..r -> CellsOf("bool")] : r > 0} }

Shapes == {s \in (1..MaxCols) \X (0..MaxRows) : s[1] * s[2] <= MaxCells}

Frames ==
  UNION { [1..s[1] -> IF s[2] = 0 THEN {col \in ColumnsOf(0) : col.dtype = "cat"}
                      ELSE ColumnsOf(s[2])] : s \in Shapes }

Files ==
  { [status |-> "ok", cols |-> f] : f \in Frames } \cup
  { [status |-> s, cols |-> <<>>] : s \in {"missing", "unparseable", "empty"} }

NoneDF == [none |-> TRUE, cols |-> <<>>]

NRows(d) == IF d.cols = <<>> THEN 0 ELSE Len(d.cols[1].cells)

----------------------------------------------------------------------------
(* Floats *)

NaN == [nan |-> TRUE, sgn |-> 0, num |-> 0, den |-> 1, root |-> FALSE]

Ratio(n, d) == [nan |-> FALSE, sgn |-> Sign(n) * Sign(d), num |-> Abs(n),
                den |-> Abs(d), root |-> FALSE]

Root(s, n, d) == [nan |-> FALSE, sgn |-> IF n = 0 THEN 0 ELSE s, num |-> n,
                  den |-> d, root |-> TRUE]

GT0(x) == ~x.nan /\ x.sgn = 1

LT0(x) == ~x.nan /\ x.sgn = -1

EQ0(x) == ~x.nan /\ x.sgn = 0

----------------------------------------------------------------------------
(* DataFrame operations *)

CompleteRow(d, i) == \A j \in 1..Len(d.cols) : d.cols[j].cells[i] # NA

dropna_how_all(d) ==
  LET keep == SelectSeq(Indices(NRows(d)),
                        LAMBDA i : \E j \in 1..Len(d.cols) : d.cols[j].cells[i] # NA)
  IN [none |-> FALSE,
      cols |-> [j \in 1..Len(d.cols) |->
                  [dtype |-> d.cols[j].dtype,
                   cells |-> [i \in 1..Len(keep) |-> d.cols[j].cells[keep[i]]]]]]

dropna(d) ==
  LET keep == SelectSeq(Indices(NRows(d)), LAMBDA i : CompleteRow(d, i))
  IN [none |-> FALSE,
      cols |-> [j \in 1..Len(d.cols) |->
                  [dtype |-> d.cols[j].dtype,
                   cells |-> [i \in 1..Len(keep) |-> d.cols[j].cells[keep[i]]]]]]

select_numeric(d) ==
  SelectSeq(Indices(Len(d.cols)), LAMBDA j : d.cols[j].dtype = "num")

select_categorical(d) ==
  SelectSeq(Indices(Len(d.cols)), LAMBDA j : d.cols[j].dtype = "cat")

----------------------------------------------------------------------------
(* statistical_analysis: pandas mean/std (ddof = 1), scipy skew/kurtosis   *)
(* (biased, Fisher).  With n values x, S their sum and d[i] = n*x[i] - S:  *)
(*   mean = S/n,  var = Q2/(n^2 (n-1)),  skew^2 = n Q3^2 / Q2^3,            *)
(*   kurtosis = (n Q4 - 3 Q2^2) / Q2^2,   Qk = sum of d[i]^k.              *)
(* On zero variance scipy yields NaN (newer releases) or 0 and -3 (older). *)

Values(d, col) == SelectSeq(d.cols[col].cells, LAMBDA x : x # NA)

Dev(v) == [i \in 1..Len(v) |-> Len(v) * v[i] - Sum(v)]

Q2(v) == Sum([i \in 1..Len(v) |-> Dev(v)[i] * Dev(v)[i]])

Q3(v) == Sum([i \in 1..Len(v) |-> Dev(v)[i] * Dev(v)[i] * Dev(v)[i]])

Q4(v) == Sum([i \in 1..Len(v) |-> Dev(v)[i] * Dev(v)[i] * Dev(v)[i] * Dev(v)[i]])

series_mean(v) == IF Len(v) = 0 THEN NaN ELSE Ratio(Sum(v), Len(v))

series_std(v) ==
  IF Len(v) < 2 THEN NaN
  ELSE Root(1, Q2(v), Len(v) * Len(v) * (Len(v) - 1))

ss_skew(v, constNaN) ==
  IF Len(v) = 0 THEN NaN
  ELSE IF Q2(v) = 0 THEN (IF constNaN THEN NaN ELSE Ratio(0, 1))
  ELSE Root(Sign(Q3(v)), Len(v) * Q3(v) * Q3(v), Q2(v) * Q2(v) * Q2(v))

ss_kurtosis(v, constNaN) ==
  IF Len(v) = 0 THEN NaN
  ELSE IF Q2(v) = 0 THEN (IF constNaN THEN NaN ELSE Ratio(-3, 1))
  ELSE Ratio(Len(v) * Q4(v) - 3 * Q2(v) * Q2(v), Q2(v) * Q2(v))

Moments(d, col, constNaN) ==
  LET v == Values(d, col)
  IN <<series_mean(v), series_std(v), ss_skew(v, constNaN), ss_kurtosis(v, constNaN)>>

----------------------------------------------------------------------------
(* writing: the two conditional expressions *)

skew_desc(m) == IF GT0(m[3]) THEN "Right-skewed"
                ELSE IF LT0(m[3]) THEN "Left-skewed" ELSE "Symmetrical"

kurtosis_desc(m) == IF GT0(m[4]) THEN "Leptokurtic"
                    ELSE IF LT0(m[4]) THEN "Platykurtic" ELSE "Mesokurtic"

----------------------------------------------------------------------------
(* Decisions of main and of the chart functions *)

main_after_load_continues(status) ==
  IF status = "empty" THEN "crashed" ELSE "prep"

main_after_load(status) ==
  IF status = "ok" THEN "prep"
  ELSE IF status \in {"missing", "unparseable"} THEN "returned"
  ELSE "crashed"

main_after_classify_no_return(d, nc) ==
  IF d.none THEN "crashed" ELSE "relational"

main_after_classify(d, nc) ==
  IF d.none THEN "crashed"
  ELSE IF Len(nc) = 0 THEN "returned"
  ELSE "relational"

first_col(nc) == nc[1]

scatter_skips(nc) == Len(nc) < 2

scatter_columns_swapped(nc) == <<nc[2], nc[1]>>

scatter_columns(nc) == <<nc[1], nc[2]>>

heatmap_skips_off_by_one(nc) == Len(nc) < 1

heatmap_skips(nc) == Len(nc) < 2

bar_skips(cc) == Len(cc) = 0

bar_column(cc) == cc[1]

on_fault_propagates(next) == "crashed"

on_fault(next) == next

ScatterSkipMsg == "Insufficient numerical columns"

HeatmapSkipMsg == "Not enough numeric data"

BarSkipMsg == "No categorical data"

Entry(src, level, msg) == [src |-> src, level |-> level, msg |-> msg]

NoChoice == [scatter |-> <<>>, bar |-> 0]

----------------------------------------------------------------------------

Init ==
  /\ file \in Files
  /\ scipyNaN \in BOOLEAN
  /\ run = 1
  /\ pc = "load"
  /\ df = NoneDF
  /\ num_cols = <<>>
  /\ selected_col = 0
  /\ moments = <<>>
  /\ labels = <<>>
  /\ chosen = NoChoice
  /\ calls = <<>>
  /\ log = <<>>
  /\ disk = {}
  /\ faults = 0

(* A fault inside a try block: at most MaxFaults of them are injected. *)
Faulty(f) == f => faults < MaxFaults

Count(f) == IF f THEN faults + 1 ELSE faults

(* main, lines 291-302 *)
Load ==
  /\ pc = "load"
  /\ pc' = main_after_load(file.status)
  /\ df' = IF file.status = "ok" THEN [none |-> FALSE, cols |-> file.cols] ELSE NoneDF
  /\ log' = IF file.status = "ok"
              THEN Append(log, Entry("main", "INFO", "Data loaded"))
            ELSE IF file.status = "missing"
              THEN Append(log, Entry("main", "ERROR", "File not found"))
            ELSE IF file.status = "unparseable"
              THEN Append(log, Entry("main", "ERROR", "Error reading"))
            ELSE log
  /\ UNCHANGED <<file, scipyNaN, run, num_cols, selected_col, moments, labels,
                 chosen, calls, disk, faults>>

(* main line 304 and preprocessing, lines 200-210 *)
Preprocessing ==
  /\ pc = "prep"
  /\ \E fault \in BOOLEAN :
       /\ Faulty(fault)
       /\ faults' = Count(fault)
       /\ IF fault \/ df.none
            THEN /\ df' = NoneDF
                 /\ log' = Append(log, Entry("preprocessing", "ERROR", "Failed to preprocess data"))
            ELSE /\ df' = dropna(df)
                 /\ log' = Append(log, Entry("preprocessing", "INFO", "Data preprocessing completed"))
  /\ calls' = Append(calls, "preprocessing")
  /\ pc' = "classify"
  /\ UNCHANGED <<file, scipyNaN, run, num_cols, selected_col, moments, labels,
                 chosen, disk>>

(* main, lines 305-311 *)
Classify ==
  /\ pc = "classify"
  /\ num_cols' = IF df.none THEN <<>> ELSE select_numeric(df)
  /\ pc' = main_after_classify(df, num_cols')
  /\ selected_col' = IF pc' = "relational" /\ Len(num_cols') > 0
                       THEN first_col(num_cols') ELSE 0
  /\ log' = IF ~df.none /\ Len(num_cols') = 0
              THEN Append(log, Entry("main", "WARNING", "No numeric data"))
              ELSE log
  /\ UNCHANGED <<file, scipyNaN, run, df, moments, labels, chosen, calls,
                 disk, faults>>

(* The three overview plots, lines 157-185 *)
OverviewPlot(at, name, image, next) ==
  /\ pc = at
  /\ calls' = Append(calls, name)
  /\ \E fault \in BOOLEAN :
       /\ Faulty(fault)
       /\ faults' = Count(fault)
       /\ IF fault
            THEN /\ log' = Append(log, Entry(name, "ERROR", "Failed to save"))
                 /\ disk' = disk
                 /\ pc' = on_fault(next)
            ELSE /\ log' = Append(log, Entry(name, "INFO", "saved"))
                 /\ disk' = disk \cup {image}
                 /\ pc' = next
  /\ UNCHANGED <<file, scipyNaN, run, df, num_cols, selected_col, moments,
                 labels, chosen>>

plot_relational_plot ==
  OverviewPlot("relational", "plot_relational_plot", "relational_plot.png", "statistical")

plot_statistical_plot ==
  OverviewPlot("statistical", "plot_statistical_plot", "statistical_plot.png", "categorical")

plot_categorical_plot ==
  OverviewPlot("categorical", "plot_categorical_plot", "categorical_plot.png", "scatter")

(* A chart function with a precondition: the fault is raised before the    *)
(* check ("pre": plt.figure, select_dtypes) or after it ("render").        *)
Chart(at, name, image, next, skips, skipMsg, choice) ==
  /\ pc = at
  /\ calls' = Append(calls, name)
  /\ \E fault \in {"none", "pre", "render"} :
       /\ Faulty(fault # "none")
       /\ fault = "render" => ~skips
       /\ faults' = Count(fault # "none")
       /\ IF fault = "pre"
            THEN /\ log' = Append(log, Entry(name, "ERROR", "Failed to save"))
                 /\ disk' = disk
                 /\ chosen' = chosen
                 /\ pc' = on_fault(next)
          ELSE IF skips
            THEN /\ log' = Append(log, Entry(name, "WARNING", skipMsg))
                 /\ disk' = disk
                 /\ chosen' = chosen
                 /\ pc' = next
          ELSE IF fault = "render"
            THEN /\ log' = Append(log, Entry(name, "ERROR", "Failed to save"))
                 /\ disk' = disk
                 /\ chosen' = choice
                 /\ pc' = on_fault(next)
          ELSE   /\ log' = Append(log, Entry(name, "INFO", "saved"))
                 /\ disk' = disk \cup {image}
                 /\ chosen' = choice
                 /\ pc' = next
  /\ UNCHANGED <<file, scipyNaN, run, df, num_cols, selected_col, moments, labels>>

(* lines 228-247 *)
scatter_plot ==
  LET nc == select_numeric(df)
  IN Chart("scatter", "scatter_plot", "scatter_data.csv.png", "heatmap",
           scatter_skips(nc), ScatterSkipMsg,
           [chosen EXCEPT !.scatter = scatter_columns(nc)])

(* lines 271-287 *)
heatmap ==
  LET nc == select_numeric(df)
  IN Chart("heatmap", "heatmap", "heatmap_data.csv.png", "bar",
           heatmap_skips(nc), HeatmapSkipMsg, chosen)

(* lines 249-269 *)
bar_plot ==
  LET cc == select_categorical(df)
  IN Chart("bar", "bar_plot", "bar_data.csv.png", "analysis",
           bar_skips(cc), BarSkipMsg,
           [chosen EXCEPT !.bar = bar_column(cc)])

(* main line 318 and statistical_analysis, lines 187-198 *)
statistical_analysis ==
  /\ pc = "analysis"
  /\ calls' = Append(calls, "statistical_analysis")
  /\ \E fault \in BOOLEAN :
       /\ Faulty(fault)
       /\ faults' = Count(fault)
       /\ IF fault \/ selected_col = 0
            THEN /\ moments' = <<>>
                 /\ log' = Append(log, Entry("statistical_analysis", "ERROR", "Failed to perform"))
            ELSE /\ moments' = Moments(df, selected_col, scipyNaN)
                 /\ log' = Append(log, Entry("statistical_analysis", "INFO", "completed"))
  /\ pc' = "writing"
  /\ UNCHANGED <<file, scipyNaN, run, df, num_cols, selected_col, labels,
                 chosen, disk>>

(* main line 319 and writing, lines 212-226 *)
writing ==
  /\ pc = "writing"
  /\ calls' = Append(calls, "writing")
  /\ \E fault \in BOOLEAN :
       /\ Faulty(fault)
       /\ faults' = Count(fault)
       /\ IF fault \/ moments = <<>>
            THEN /\ labels' = <<>>
                 /\ log' = Append(log, Entry("writing", "ERROR", "Failed to print"))
            ELSE /\ labels' = <<skew_desc(moments), kurtosis_desc(moments)>>
                 /\ log' = Append(log, Entry("writing", "INFO", "printed"))
  /\ pc' = "returned"
  /\ UNCHANGED <<file, scipyNaN, run, df, num_cols, selected_col, moments,
                 chosen, disk>>

(* line 323: the second call of main; the locals of the first are gone *)
SecondMain ==
  /\ pc = "returned"
  /\ run = 1
  /\ run' = 2
  /\ pc' = "load"
  /\ df' = NoneDF
  /\ num_cols' = <<>>
  /\ selected_col' = 0
  /\ moments' = <<>>
  /\ labels' = <<>>
  /\ chosen' = NoChoice
  /\ calls' = <<>>
  /\ log' = <<>>
  /\ UNCHANGED <<file, scipyNaN, disk, faults>>

Next ==
  \/ Load
  \/ Preprocessing
  \/ Classify
  \/ plot_relational_plot
  \/ plot_statistical_plot
  \/ plot_categorical_plot
  \/ scatter_plot
  \/ heatmap
  \/ bar_plot
  \/ statistical_analysis
  \/ writing
  \/ SecondMain

Spec == Init /\ [][Next]_vars

----------------------------------------------------------------------------
(* Vocabulary of the properties *)

Renderers == {"plot_relational_plot", "plot_statistical_plot",
              "plot_categorical_plot", "scatter_plot", "heatmap", "bar_plot"}

Downstream == Renderers \cup {"statistical_analysis", "writing"}

Images == {"relational_plot.png", "statistical_plot.png", "categorical_plot.png",
           "scatter_data.csv.png", "heatmap_data.csv.png", "bar_data.csv.png"}

ChartImages == {"scatter_data.csv.png", "heatmap_data.csv.png", "bar_data.csv.png"}

Invoked(S) == Range(calls) \cap S # {}

FullOrder == <<"preprocessing", "plot_relational_plot", "plot_statistical_plot",
               "plot_categorical_plot", "scatter_plot", "heatmap", "bar_plot",
               "statistical_analysis", "writing">>

HasNumeric(d) == \E j \in 1..Len(d.cols) : d.cols[j].dtype = "num"

Cleaned == ~df.none /\ pc \notin {"load", "prep"}

PastCheck == ~df.none /\ pc \notin {"load", "prep", "classify"}

(* C1: when the load fails with file-not-found or a parse error, main
   returns and neither preprocessing, the numeric-column classification,
   a chart function, statistical_analysis nor writing is ever invoked. *)
C1_LoadFailureStopsRun ==
  file.status \in {"missing", "unparseable"} =>
    /\ pc \in {"load", "returned"}
    /\ calls = <<>>
    /\ num_cols = <<>>
    /\ disk = {}
    /\ moments = <<>>
    /\ labels = <<>>

C1_Witness ==
  /\ file.status = "missing"
  /\ pc = "returned"
  /\ run = 2
  /\ log = <<Entry("main", "ERROR", "File not found")>>

(* C2: when preprocessing returns the null result, main terminates
   normally: no exception escapes main and nothing downstream is invoked. *)
C2_NullPreprocessingIsFatalNotACrash ==
  (Invoked({"preprocessing"}) /\ df.none /\ pc # "classify") =>
    /\ pc = "returned"
    /\ ~Invoked(Downstream)

(* C3: when the cleaned dataset has zero rows, main invokes no chart
   function, no statistical_analysis and no writing. *)
C3_ZeroRowsStopsRun ==
  (PastCheck /\ NRows(df) = 0) => ~Invoked(Downstream)

(* C4: when the cleaned dataset has no numeric column, main returns at the
   check: no image is written and no moments report is produced. *)
C4_NoNumericColumnsStopsRun ==
  (PastCheck /\ ~HasNumeric(df)) =>
    /\ pc = "returned"
    /\ calls = <<"preprocessing">>
    /\ disk \cap Images = {}
    /\ moments = <<>>
    /\ labels = <<>>

C4_Witness ==
  /\ PastCheck
  /\ ~HasNumeric(df)
  /\ NRows(df) > 0
  /\ pc = "returned"
  /\ log[Len(log)] = Entry("main", "WARNING", "No numeric data")

(* C5 *)
Degenerate(d) ==
  /\ ~d.none
  /\ Cardinality({j \in 1..Len(d.cols) : d.cols[j].dtype = "num"}) = 1
  /\ \A j \in 1..Len(d.cols) : d.cols[j].dtype # "cat"

AfterBar == pc \in {"analysis", "writing", "returned"}

ChartLog ==
  SelectSeq(log, LAMBDA e : e.src \in {"scatter_plot", "heatmap", "bar_plot"})

NoChartError == \A i \in 1..Len(ChartLog) : ChartLog[i].level # "ERROR"

(* The diagnostic the claim calls "insufficient numeric columns" and the
   one it calls "no categorical data", in the wording of the code. *)
InsufficientNumericColumns == "Insufficient numerical columns"

NoCategoricalData == "No categorical data"

(* C5 as stated: with exactly one numeric and no categorical column the
   three chart functions write no image and log three skip diagnostics,
   "insufficient numeric columns" for scatter and for heatmap and "no
   categorical data" for bar. *)
C5_SkipDiagnosticsAsStated ==
  (Degenerate(df) /\ AfterBar /\ NoChartError) =>
    /\ disk \cap ChartImages = {}
    /\ ChartLog = << Entry("scatter_plot", "WARNING", InsufficientNumericColumns),
                     Entry("heatmap", "WARNING", InsufficientNumericColumns),
                     Entry("bar_plot", "WARNING", NoCategoricalData) >>

(* C5 amended: with exactly one numeric and no categorical column the three
   chart functions never raise into main and write no image; unless one of
   them faults internally they log exactly three skip diagnostics:
   "Insufficient numerical columns" for scatter, "Not enough numeric data"
   for heatmap and "No categorical data" for bar. *)
C5_SkipDiagnosticsAmended ==
  (Degenerate(df) /\ AfterBar) =>
    /\ pc # "crashed"
    /\ disk \cap ChartImages = {}
    /\ Len(ChartLog) = 3
    /\ NoChartError =>
         ChartLog = << Entry("scatter_plot", "WARNING", "Insufficient numerical columns"),
                       Entry("heatmap", "WARNING", "Not enough numeric data"),
                       Entry("bar_plot", "WARNING", "No categorical data") >>

C5_Witness ==
  /\ Degenerate(df)
  /\ pc = "returned"
  /\ NoChartError
  /\ Len(ChartLog) = 3
  /\ Len(df.cols) > 1

(* C6: with at least one row after cleaning, statistical_analysis on the
   first numeric column returns four finite values, one-row datasets
   included. *)
C6_MomentsAreFinite ==
  (PastCheck /\ NRows(df) >= 1 /\ Len(moments) = 4) =>
    \A i \in 1..4 : ~moments[i].nan

(* C7: a fault inside a chart function is caught and logged there; it never
   reaches main, and every later step of main still runs, in main's order. *)
Position == [relational |-> 1, statistical |-> 2, categorical |-> 3,
             scatter |-> 4, heatmap |-> 5, bar |-> 6, analysis |-> 7,
             writing |-> 8]

Entries(name) == SelectSeq(log, LAMBDA e : e.src = name)

Calls(name) == SelectSeq(calls, LAMBDA c : c = name)

C7_RendererFaultsAreContained ==
  /\ Invoked(Renderers) => pc # "crashed"
  /\ pc \in DOMAIN Position => calls = SubSeq(FullOrder, 1, Position[pc])
  /\ (pc = "returned" /\ Invoked(Renderers)) => calls = FullOrder
  /\ \A name \in Renderers : Len(Entries(name)) = Len(Calls(name))

C7_Witness ==
  /\ pc = "returned"
  /\ calls = FullOrder
  /\ \E i \in 1..Len(log) :
       log[i].src = "plot_relational_plot" /\ log[i].level = "ERROR"
  /\ "relational_plot.png" \notin disk
  /\ "bar_data.csv.png" \in disk
  /\ labels # <<>>

(* C8: scatter_plot draws the first numeric column against the second
   numeric column, bar_plot counts the first categorical column and main
   analyses the first numeric column, in load order. *)
IsNth(d, t, j, n) ==
  /\ j \in 1..Len(d.cols)
  /\ d.cols[j].dtype = t
  /\ Cardinality({i \in 1..(j - 1) : d.cols[i].dtype = t}) = n - 1

C8_FirstEligibleColumns ==
  /\ chosen.scatter # <<>> =>
       /\ IsNth(df, "num", chosen.scatter[1], 1)
       /\ IsNth(df, "num", chosen.scatter[2], 2)
  /\ chosen.bar # 0 => IsNth(df, "cat", chosen.bar, 1)
  /\ selected_col # 0 => IsNth(df, "num", selected_col, 1)
  /\ PastCheck /\ HasNumeric(df) => selected_col # 0

C8_Witness ==
  /\ pc = "returned"
  /\ chosen.scatter = <<2, 3>>
  /\ chosen.bar = 1
  /\ selected_col = 2
  /\ Len(moments) = 4

(* C9: preprocessing returns exactly the rows of its input that have no
   missing cell, over the same columns in the same order; cleaning its
   output again, or any dataset without missing cells, changes nothing. *)
RowOf(cols, i) == [j \in 1..Len(cols) |-> cols[j].cells[i]]

RowsOf(cols) == [i \in 1..Len(cols[1].cells) |-> RowOf(cols, i)]

NoMissing(row) == \A j \in 1..Len(row) : row[j] # NA

C9_CleanerKeepsCompleteRows ==
  (Cleaned /\ Invoked({"preprocessing"})) =>
    /\ Len(df.cols) = Len(file.cols)
    /\ \A j \in 1..Len(df.cols) : df.cols[j].dtype = file.cols[j].dtype
    /\ RowsOf(df.cols) = SelectSeq(RowsOf(file.cols), NoMissing)
    /\ dropna(df) = df
    /\ (\A i \in 1..Len(RowsOf(file.cols)) : NoMissing(RowsOf(file.cols)[i]))
         => df.cols = file.cols

C9_Witness ==
  /\ Cleaned
  /\ pc = "classify"
  /\ NRows(df) > 0
  /\ NRows(df) < Len(file.cols[1].cells)
  /\ Len(df.cols) > 1

(* C10: the skew label is right-skewed iff skewness > 0, left-skewed iff
   skewness < 0 and symmetrical iff skewness = 0; likewise leptokurtic,
   platykurtic and mesokurtic for the excess kurtosis; every moments value
   handed to writing gets one label of each kind. *)
C10_LabelsFollowTheSign ==
  /\ (pc = "returned" /\ Invoked({"writing"})
        /\ log[Len(log)].level # "ERROR") => Len(labels) = 2
  /\ Len(labels) = 2 =>
       /\ labels[1] = "Right-skewed" <=> GT0(moments[3])
       /\ labels[1] = "Left-skewed" <=> LT0(moments[3])
       /\ labels[1] = "Symmetrical" <=> EQ0(moments[3])
       /\ labels[2] = "Leptokurtic" <=> GT0(moments[4])
       /\ labels[2] = "Platykurtic" <=> LT0(moments[4])
       /\ labels[2] = "Mesokurtic" <=> EQ0(moments[4])

====
